---- MODULE Spec2Model ----
(***************************************************************************)
(* Model of option_recommender.py: a Streamlit script that validates a     *)
(* form, composes an instruction list for an external agent, calls the     *)
(* agent once and renders the report or an error.                          *)
(*                                                                         *)
(* Text is modelled as a sequence of tokens: every string literal of the   *)
(* source is one token and every interpolated value of an f-string is one  *)
(* token, so string concatenation is \o and "contains" is token            *)
(* membership.  Emoji of the source literals are left out of the tokens.   *)
(***************************************************************************)
EXTENDS Integers, Sequences, FiniteSets, TLC

\* ------------------------------------------------------------------------
\* Bounds and input sets
\* ------------------------------------------------------------------------
\* Number of event loops the process may create before script threads are
\* reused (keeps loopsCreated finite).
MaxLoops == 3

NoLoop == 0

Credentials == {"", "sk-test"}
Tickers == {"", "NVDA"}
Strategies ==
  {"Any", "Covered Call", "Put", "Call", "Iron Condor", "Straddle", "Strangle",
   "Credit Spread", "Debit Spread"}
Timeframes == {"1 week", "2 weeks", "1 month", "3 months", "6 months", "1 year"}

\* Descriptions of the exceptions the agent client may raise.
ExcTexts == {"Incorrect API key provided", "Connection error"}
\* Description of the exception raised when the response has no content.
NoContentText == "'NoneType' object has no attribute 'content'"
\* Response objects agent.run may return: with a content field, or without.
Responses ==
  {[hasContent |-> TRUE, content |-> "| Price Target | Probability |"],
   [hasContent |-> FALSE, content |-> ""]}

\* ------------------------------------------------------------------------
\* Literals of the source
\* ------------------------------------------------------------------------
MissingCredential == <<"Please enter your OpenAI API Key in the sidebar.">>
MissingTicker == <<"Please enter a stock ticker.">>
ReportHeader == <<"### AI Analysis Report">>

PremiumClause ==
  "User wants to COLLECT PREMIUM (Theta Strategy). Prioritize selling options (e.g., Credit Spreads, Iron Condors, Covered Calls). Suggest strikes that are Out-of-The-Money (OTM) with high probability of expiring worthless. "

AnyPrefix ==
  "5. Recommended Strategy: Suggest ONE specific option strategy that best fits the analysis (and premium focus if selected), with a recommended duration/expiration of approximately "

EvalPrefix == "5. Recommended Strategy: Evaluate if a "
EvalMiddle ==
  " strategy is suitable for the current market trend. If it is NOT suitable, recommend the best alternative strategy instead and explicitly explain why the user's preferred strategy ("
EvalSuffix ==
  ") is risky or suboptimal. Specify the recommended duration/expiration of approximately "

HeadInstructions ==
  << <<"1. **Summary Table**: Start with a markdown table containing: 'Price Target (Exact $)', 'Probability of Success %', 'AI Confidence Score %'. You MUST provide at least 5 distinct rows with specific price targets for confidence always greater than 90%. IMMEDIATELY follow the table with this italicized note: *'Note: AI Confidence Score reflects the model's certainty based on the alignment of technical indicators, analyst consensus, vs market sentiment.'*">>,
     <<"2. 'Quickbite Overview': Stock Price, Trend (Bullish/Bearish), and Key Catalyst (1 sentence).">>,
     <<"3. Technical Analysis: State the **current RSI value** (e.g., 'RSI: 64'). Analyze it: if RSI > 70, consider 'Overbought' (lean bearish). If RSI < 30, consider 'Oversold' (lean bullish). Use this to justify the strategy.">>,
     <<"4. Key Metrics Table: Display P/E, 52-Wk Range, and Analyst Consensus only.">>,
     <<"5. Market Sentiment: Summarize top 3 recent news items in 1 short bullet each.">> >>

TailInstructions ==
  << <<"6. Prediction: Give a concise Price Target Range (1 week).">>,
     <<"7. Important: Keep the entire response short, scannable, and avoid long paragraphs. Use full width for tables.">>,
     <<"8. Disclaimer: This is for educational purposes only and is NOT financial advice.">>,
     <<"9. Fun Style: Use relevant emojis throughout the response to make it engaging and fun!">> >>

\* Elements every run of the script renders before the button is examined.
StaticPage ==
  << [kind |-> "title", body |-> <<"AI Option Recommender">>],
     [kind |-> "markdown", body |-> <<"This agent analyzes stock data ... **Disclaimer:** This is for educational purposes only and is NOT financial advice.">>],
     [kind |-> "header", body |-> <<"Configuration">>],
     [kind |-> "info", body |-> <<"Get your API key from [OpenAI](https://platform.openai.com/account/api-keys)">>],
     [kind |-> "header", body |-> <<"Strategy Preferences">>] >>

DefaultInputs ==
  [credential |-> "", ticker |-> "NVDA", strategy_type |-> "Any",
   timeframe |-> "1 week", premium_focus |-> FALSE]

\* ------------------------------------------------------------------------
\* Pure functions
\* ------------------------------------------------------------------------
\* Mutants of StrategyInstruction.
StrategyInstructionAppendsPremium(strategy_type, timeframe, premium_focus) ==
  (IF strategy_type = "Any"
     THEN <<AnyPrefix, timeframe, ".">>
     ELSE <<EvalPrefix, strategy_type, EvalMiddle, strategy_type, EvalSuffix,
            timeframe, ".">>)
  \o (IF premium_focus THEN <<PremiumClause>> ELSE <<>>)

StrategyInstructionBranchInverted(strategy_type, timeframe, premium_focus) ==
  (IF premium_focus THEN <<PremiumClause>> ELSE <<>>)
  \o (IF strategy_type # "Any"
        THEN <<AnyPrefix, timeframe, ".">>
        ELSE <<EvalPrefix, strategy_type, EvalMiddle, strategy_type, EvalSuffix,
               timeframe, ".">>)

StrategyInstructionStaleName(strategy_type, timeframe, premium_focus) ==
  (IF premium_focus THEN <<PremiumClause>> ELSE <<>>)
  \o (IF strategy_type = "Any"
        THEN <<AnyPrefix, timeframe, ".">>
        ELSE <<EvalPrefix, strategy_type, EvalMiddle, "Covered Call", EvalSuffix,
               timeframe, ".">>)

\* strategy_instruction as built by the two if-statements.
StrategyInstruction(strategy_type, timeframe, premium_focus) ==
  (IF premium_focus THEN <<PremiumClause>> ELSE <<>>)
  \o (IF strategy_type = "Any"
        THEN <<AnyPrefix, timeframe, ".">>
        ELSE <<EvalPrefix, strategy_type, EvalMiddle, strategy_type, EvalSuffix,
               timeframe, ".">>)

\* Mutant of Instructions: the strategy entry is placed last.
InstructionsStrategyLast(si) ==
  HeadInstructions \o TailInstructions \o <<si>>

\* The instructions=[...] list literal handed to Agent(...).
Instructions(si) ==
  HeadInstructions \o <<si>> \o TailInstructions

\* The task string handed to agent.run.
Task(ticker, strategy_type, timeframe) ==
  <<"Analyze ", ticker,
    " and predict its weekly price target with confidence and probability. Suggest a ",
    strategy_type, " option strategy with a ", timeframe, " timeframe.">>

SpinnerText(ticker) == <<"Analyzing ", ticker, " market data and news...">>

\* Mutant of ErrorMessage: the description of the exception is dropped.
ErrorMessageGeneric(e) == <<"An error occurred">>

\* f"An error occurred: {str(e)}"
ErrorMessage(e) == <<"An error occurred: ", e>>

\* ------------------------------------------------------------------------
\* State
\* ------------------------------------------------------------------------
VARIABLES
  pc,                   \* position of the script run; "idle" between runs
  currentLoop,          \* event loop installed in the script thread, or NoLoop
  loopsCreated,         \* number of event loops created so far in the process
  loopOrigin,           \* who installed currentLoop
  inputs,               \* widget values of the current run
  button,               \* value st.button returned in the current run
  display,              \* elements rendered by the current run, in order
  spinner,              \* text of the spinner while it is shown, else <<>>
  strategy_instruction, \* the local of that name
  agent,                \* <<>> or <<the constructed Agent>>
  task,                 \* argument of the agent.run call issued, else <<>>
  agentCalls,           \* agent.run calls issued in the current run
  response,             \* <<>> or <<the RunOutput returned>>
  exc,                  \* description of the exception caught, "" if none
  excSite,              \* where it was raised
  failedBefore          \* an earlier submission ended in the except clause

vars ==
  <<pc, currentLoop, loopsCreated, loopOrigin, inputs, button, display, spinner,
    strategy_instruction, agent, task, agentCalls, response, exc, excSite,
    failedBefore>>

loopVars == <<currentLoop, loopsCreated, loopOrigin>>
runVars ==
  <<strategy_instruction, agent, task, agentCalls, response, exc, excSite>>

Init ==
  /\ pc = "loop_init"
  /\ \/ currentLoop = NoLoop /\ loopsCreated = 0 /\ loopOrigin = "none"
     \/ currentLoop = 1 /\ loopsCreated = 1 /\ loopOrigin = "host"
  /\ inputs = DefaultInputs
  /\ button = FALSE
  /\ display = <<>>
  /\ spinner = <<>>
  /\ strategy_instruction = <<>>
  /\ agent = <<>>
  /\ task = <<>>
  /\ agentCalls = 0
  /\ response = <<>>
  /\ exc = ""
  /\ excSite = "none"
  /\ failedBefore = FALSE

\* ------------------------------------------------------------------------
\* Script runs.  Streamlit re-executes the whole script on every interaction;
\* the output of the previous run is replaced and the locals start afresh.
\* The script thread of the new run either keeps the event loop of the
\* previous one or is a fresh thread without a loop.
\* ------------------------------------------------------------------------
StartRun(newInputs, pressed, freshThread) ==
  /\ pc = "idle"
  /\ freshThread => loopsCreated < MaxLoops
  /\ pc' = "loop_init"
  /\ inputs' = newInputs
  /\ button' = pressed
  /\ display' = <<>>
  /\ spinner' = <<>>
  /\ strategy_instruction' = <<>>
  /\ agent' = <<>>
  /\ task' = <<>>
  /\ agentCalls' = 0
  /\ response' = <<>>
  /\ exc' = ""
  /\ excSite' = "none"
  /\ failedBefore' = (failedBefore \/ (button /\ excSite # "none"))
  /\ currentLoop' = IF freshThread THEN NoLoop ELSE currentLoop
  /\ loopOrigin' = IF freshThread THEN "none" ELSE loopOrigin
  /\ UNCHANGED loopsCreated

\* The user presses "Generate Prediction".  Text typed into the two text
\* inputs since the last run is committed by the same interaction; the
\* select boxes and the checkbox keep the values of the last run, since
\* changing one of them is an interaction of its own.
Submit ==
  /\ pc = "idle"
  /\ \E c \in Credentials, t \in Tickers, freshThread \in BOOLEAN :
       StartRun([inputs EXCEPT !.credential = c, !.ticker = t], TRUE, freshThread)

\* The inputs after the user has edited exactly one widget.
OneWidgetChanged ==
  {[inputs EXCEPT !.credential = c] : c \in Credentials \ {inputs.credential}}
  \cup {[inputs EXCEPT !.ticker = t] : t \in Tickers \ {inputs.ticker}}
  \cup {[inputs EXCEPT !.strategy_type = s] : s \in Strategies \ {inputs.strategy_type}}
  \cup {[inputs EXCEPT !.timeframe = tf] : tf \in Timeframes \ {inputs.timeframe}}
  \cup {[inputs EXCEPT !.premium_focus = ~inputs.premium_focus]}

\* The user edits one widget: the script reruns and st.button returns False.
WidgetChange ==
  /\ pc = "idle"
  /\ \E r \in OneWidgetChanged, freshThread \in BOOLEAN :
       StartRun(r, FALSE, freshThread)

\* Mutant of EventLoopInit: a new loop is installed without the check.
EventLoopInitAlwaysNew ==
  /\ pc = "loop_init"
  /\ loopsCreated' = loopsCreated + 1
  /\ currentLoop' = loopsCreated + 1
  /\ loopOrigin' = "script"
  /\ pc' = "render"
  /\ UNCHANGED <<inputs, button, display, spinner, runVars, failedBefore>>

\* try: asyncio.get_event_loop()  except RuntimeError: set_event_loop(new_event_loop())
\* With no loop installed get_event_loop either raises RuntimeError (the
\* script then creates and installs one) or, under the main-thread policy of
\* older interpreters, creates and installs one itself.
EventLoopInit ==
  /\ pc = "loop_init"
  /\ \/ /\ currentLoop # NoLoop
        /\ UNCHANGED loopVars
     \/ /\ currentLoop = NoLoop
        /\ loopsCreated' = loopsCreated + 1
        /\ currentLoop' = loopsCreated + 1
        /\ loopOrigin' \in {"script", "policy"}
  /\ pc' = "render"
  /\ UNCHANGED <<inputs, button, display, spinner, runVars, failedBefore>>

\* main() up to "if st.button(...)": the static page, then the branch.
RenderPage ==
  /\ pc = "render"
  /\ display' = StaticPage
  /\ pc' = IF button THEN "check_key" ELSE "idle"
  /\ UNCHANGED <<loopVars, inputs, button, spinner, runVars, failedBefore>>

\* Mutant of CheckKey: the ticker is examined in place of the key.
CheckKeyTestsTicker ==
  /\ pc = "check_key"
  /\ IF inputs.ticker = ""
       THEN /\ display' = Append(display, [kind |-> "error", body |-> MissingCredential])
            /\ pc' = "idle"
       ELSE /\ pc' = "check_ticker"
            /\ UNCHANGED display
  /\ UNCHANGED <<loopVars, inputs, button, spinner, runVars, failedBefore>>

\* if not openai_api_key: st.error(...); return
CheckKey ==
  /\ pc = "check_key"
  /\ IF inputs.credential = ""
       THEN /\ display' = Append(display, [kind |-> "error", body |-> MissingCredential])
            /\ pc' = "idle"
       ELSE /\ pc' = "check_ticker"
            /\ UNCHANGED display
  /\ UNCHANGED <<loopVars, inputs, button, spinner, runVars, failedBefore>>

\* Mutant of CheckTicker: the return after st.error is missing.
CheckTickerNoReturn ==
  /\ pc = "check_ticker"
  /\ IF inputs.ticker = ""
       THEN display' = Append(display, [kind |-> "error", body |-> MissingTicker])
       ELSE UNCHANGED display
  /\ pc' = "compose"
  /\ UNCHANGED <<loopVars, inputs, button, spinner, runVars, failedBefore>>

\* if not ticker: st.error(...); return
CheckTicker ==
  /\ pc = "check_ticker"
  /\ IF inputs.ticker = ""
       THEN /\ display' = Append(display, [kind |-> "error", body |-> MissingTicker])
            /\ pc' = "idle"
       ELSE /\ pc' = "compose"
            /\ UNCHANGED display
  /\ UNCHANGED <<loopVars, inputs, button, spinner, runVars, failedBefore>>

\* Lines 72-96 of the try block.
ComposeStrategy ==
  /\ pc = "compose"
  /\ strategy_instruction' =
       StrategyInstruction(inputs.strategy_type, inputs.timeframe, inputs.premium_focus)
  /\ pc' = "construct"
  /\ UNCHANGED <<loopVars, inputs, button, display, spinner, agent, task,
                 agentCalls, response, exc, excSite, failedBefore>>

\* agent = Agent(model=OpenAIChat(...), tools=[...], instructions=[...], ...)
\* The constructors are external code: they return or raise.
ConstructAgent ==
  /\ pc = "construct"
  /\ \/ /\ agent' = << [model |-> "gpt-4o", api_key |-> inputs.credential,
                        tools |-> <<"YFinanceTools", "DuckDuckGoTools">>,
                        description |-> "You are an expert financial analyst and options trader.",
                        instructions |-> Instructions(strategy_instruction),
                        markdown |-> TRUE] >>
        /\ pc' = "run"
        /\ UNCHANGED <<exc, excSite>>
     \/ \E e \in ExcTexts :
          /\ exc' = e
          /\ excSite' = "construct"
          /\ pc' = "except"
          /\ UNCHANGED agent
  /\ UNCHANGED <<loopVars, inputs, button, display, spinner, strategy_instruction,
                 task, agentCalls, response, failedBefore>>

\* with st.spinner(...): response = agent.run(task, stream=False)
\* The call is external: it returns a response object or raises.
RunAgent ==
  /\ pc = "run"
  /\ spinner' = SpinnerText(inputs.ticker)
  /\ task' = Task(inputs.ticker, inputs.strategy_type, inputs.timeframe)
  /\ agentCalls' = agentCalls + 1
  /\ \/ \E r \in Responses :
          /\ response' = <<r>>
          /\ pc' = "show_header"
          /\ UNCHANGED <<exc, excSite>>
     \/ \E e \in ExcTexts :
          /\ exc' = e
          /\ excSite' = "run"
          /\ pc' = "except"
          /\ UNCHANGED response
  /\ UNCHANGED <<loopVars, inputs, button, display, strategy_instruction, agent,
                 failedBefore>>

\* st.markdown("### AI Analysis Report")
ShowHeader ==
  /\ pc = "show_header"
  /\ display' = Append(display, [kind |-> "markdown", body |-> ReportHeader])
  /\ pc' = "show_content"
  /\ UNCHANGED <<loopVars, inputs, button, spinner, runVars, failedBefore>>

\* st.markdown(response.content): reading the content of a response object
\* that has none raises inside the try block.
ShowContent ==
  /\ pc = "show_content"
  /\ IF response[1].hasContent
       THEN /\ display' = Append(display, [kind |-> "markdown",
                                           body |-> <<response[1].content>>])
            /\ spinner' = <<>>
            /\ pc' = "idle"
            /\ UNCHANGED <<exc, excSite>>
       ELSE /\ exc' = NoContentText
            /\ excSite' = "content"
            /\ pc' = "except"
            /\ UNCHANGED <<display, spinner>>
  /\ UNCHANGED <<loopVars, inputs, button, strategy_instruction, agent, task,
                 agentCalls, response, failedBefore>>

\* Mutant of HandleException: a failed call is issued once more.
HandleExceptionRetries ==
  /\ pc = "except"
  /\ spinner' = <<>>
  /\ IF excSite = "run" /\ agentCalls < 2
       THEN /\ pc' = "run"
            /\ UNCHANGED display
       ELSE /\ pc' = "idle"
            /\ display' = Append(display, [kind |-> "error", body |-> ErrorMessage(exc)])
  /\ UNCHANGED <<loopVars, inputs, button, runVars, failedBefore>>

\* except Exception as e: st.error(f"An error occurred: {str(e)}")
\* Leaving the with-block on the way removes the spinner.
HandleException ==
  /\ pc = "except"
  /\ spinner' = <<>>
  /\ display' = Append(display, [kind |-> "error", body |-> ErrorMessage(exc)])
  /\ pc' = "idle"
  /\ UNCHANGED <<loopVars, inputs, button, runVars, failedBefore>>

\* The steps of one run of the script.
ScriptStep ==
  \/ EventLoopInit
  \/ RenderPage
  \/ CheckKey
  \/ CheckTicker
  \/ ComposeStrategy
  \/ ConstructAgent
  \/ RunAgent
  \/ ShowHeader
  \/ ShowContent
  \/ HandleException

Next ==
  \/ Submit
  \/ WidgetChange
  \/ EventLoopInit
  \/ RenderPage
  \/ CheckKey
  \/ CheckTicker
  \/ ComposeStrategy
  \/ ConstructAgent
  \/ RunAgent
  \/ ShowHeader
  \/ ShowContent
  \/ HandleException

Spec == Init /\ [][Next]_vars

\* The script is sequential code: once a run has started every statement is
\* executed; the external calls return or raise.
FairSpec == Spec /\ WF_vars(ScriptStep)

\* ------------------------------------------------------------------------
\* Vocabulary of the properties
\* ------------------------------------------------------------------------
\* What the button branch of the current run has rendered.
Output == SubSeq(display, Len(StaticPage) + 1, Len(display))

Errors == SelectSeq(Output, LAMBDA el : el.kind = "error")
ReportParts == SelectSeq(Output, LAMBDA el : el.kind = "markdown")

\* The current run is a submission and has ended.
Finished == button /\ pc = "idle"

\* The abstract state of the submission state machine.
State == IF button /\ pc # "idle" THEN "Composing" ELSE "Idle"

Tokens(text) == {text[i] : i \in 1..Len(text)}

RECURSIVE Clauses(_)
\* All clauses of an instruction list, in order.
Clauses(instrs) ==
  IF instrs = <<>> THEN <<>> ELSE Head(instrs) \o Clauses(Tail(instrs))

\* Position of the strategy entry in the instruction list.
StrategySlot == Len(HeadInstructions) + 1

\* ------------------------------------------------------------------------
\* C1: a submission with an empty credential, whatever the other fields,
\* ends with the MissingCredential message as its only output; no agent is
\* constructed, no agent call is issued and the run never gets past the
\* credential check.
\* ------------------------------------------------------------------------
C1_EmptyCredentialRejected ==
  (button /\ inputs.credential = "") =>
    /\ agent = <<>>
    /\ agentCalls = 0
    /\ task = <<>>
    /\ pc \in {"loop_init", "render", "check_key", "idle"}
    /\ pc = "idle" =>
         Output = << [kind |-> "error",
                      body |-> <<"Please enter your OpenAI API Key in the sidebar.">>] >>

C1_Witness ==
  /\ Finished
  /\ inputs.credential = ""
  /\ inputs.ticker = ""
  /\ Len(Errors) = 1

\* ------------------------------------------------------------------------
\* C2: a submission with a credential and an empty ticker, whatever the
\* strategy, timeframe and premium focus, ends with the MissingTicker
\* message as its only output; no agent is constructed or called.
\* ------------------------------------------------------------------------
C2_EmptyTickerRejected ==
  (button /\ inputs.credential # "" /\ inputs.ticker = "") =>
    /\ agent = <<>>
    /\ agentCalls = 0
    /\ task = <<>>
    /\ pc \in {"loop_init", "render", "check_key", "check_ticker", "idle"}
    /\ pc = "idle" =>
         Output = << [kind |-> "error", body |-> <<"Please enter a stock ticker.">>] >>

C2_Witness ==
  /\ Finished
  /\ inputs.credential # ""
  /\ inputs.ticker = ""
  /\ inputs.premium_focus
  /\ inputs.strategy_type = "Strangle"
  /\ Len(Errors) = 1

\* ------------------------------------------------------------------------
\* C3: when the construction of the agent or the agent call raises, the
\* exception is caught: the submission ends with exactly one error message,
\* which contains the description of the exception, and nothing else; the
\* except clause leads straight back to idle; and what any finished
\* submission shows is determined by its own inputs and its own outcome,
\* whether or not an earlier submission failed.
\* ------------------------------------------------------------------------
C3_OutcomeOfRun ==
  IF inputs.credential = ""
    THEN << [kind |-> "error",
             body |-> <<"Please enter your OpenAI API Key in the sidebar.">>] >>
  ELSE IF inputs.ticker = ""
    THEN << [kind |-> "error", body |-> <<"Please enter a stock ticker.">>] >>
  ELSE IF excSite \in {"construct", "run"}
    THEN << [kind |-> "error", body |-> <<"An error occurred: ", exc>>] >>
  ELSE IF excSite = "content"
    THEN << [kind |-> "markdown", body |-> <<"### AI Analysis Report">>],
            [kind |-> "error", body |-> <<"An error occurred: ", exc>>] >>
  ELSE << [kind |-> "markdown", body |-> <<"### AI Analysis Report">>],
          [kind |-> "markdown", body |-> <<response[1].content>>] >>

C3_CaughtAtIdle ==
  /\ (Finished /\ excSite \in {"construct", "run"}) =>
       /\ exc \in ExcTexts
       /\ Len(Errors) = 1
       /\ exc \in Tokens(Errors[1].body)
       /\ Output = Errors
       /\ spinner = <<>>
  /\ Finished => Output = C3_OutcomeOfRun

C3_ExceptionCaught ==
  /\ []C3_CaughtAtIdle
  /\ [][pc = "except" => (pc' = "idle" /\ Len(display') = Len(display) + 1)]_vars

C3_Witness ==
  /\ Finished
  /\ failedBefore
  /\ excSite = "none"
  /\ inputs.credential # ""
  /\ inputs.ticker # ""
  /\ Len(ReportParts) = 2

\* ------------------------------------------------------------------------
\* C4: output is all-or-nothing: a finished submission shows either the
\* whole report (header and content) and no error message, or error
\* messages and no part of the report, also when the content of the
\* response cannot be read after the agent call has returned.
\* ------------------------------------------------------------------------
C4_AllOrNothing ==
  Finished =>
    \/ (Len(ReportParts) = 2 /\ Len(Errors) = 0)
    \/ (Len(ReportParts) = 0 /\ Len(Errors) >= 1)

\* ------------------------------------------------------------------------
\* C5: with the other fields fixed, the instruction list built with the
\* premium focus on is the list built with it off plus exactly one clause,
\* the premium clause, put in front of the strategy entry; every other
\* entry and the order of the entries are the same.  With the premium focus
\* off the premium clause does not occur.
\* ------------------------------------------------------------------------
C5_PremiumAddsOneClause ==
  agent # <<>> =>
    LET got == agent[1].instructions
        off == Instructions(StrategyInstruction(inputs.strategy_type,
                                                inputs.timeframe, FALSE))
    IN IF inputs.premium_focus
         THEN /\ Len(got) = Len(off)
              /\ \A i \in 1..Len(off) : i # StrategySlot => got[i] = off[i]
              /\ got[StrategySlot] = <<PremiumClause>> \o off[StrategySlot]
              /\ Len(Clauses(got)) = Len(Clauses(off)) + 1
         ELSE /\ got = off
              /\ PremiumClause \notin Tokens(Clauses(got))

C5_Witness ==
  /\ agent # <<>>
  /\ inputs.premium_focus
  /\ inputs.strategy_type = "Credit Spread"
  /\ Len(agent[1].instructions[StrategySlot]) = 8

\* ------------------------------------------------------------------------
\* C6: for strategy preference Any the instructions contain the
\* unconstrained-strategy clause and no evaluate-suitability clause, for
\* every timeframe and premium focus; the evaluate-suitability clause occurs
\* exactly when a specific strategy is selected, and then the unconstrained
\* clause does not.
\* ------------------------------------------------------------------------
C6_AnyIsUnconstrained ==
  agent # <<>> =>
    LET all == Tokens(Clauses(agent[1].instructions))
    IN /\ (inputs.strategy_type = "Any") <=> (AnyPrefix \in all)
       /\ (inputs.strategy_type # "Any") <=> (EvalPrefix \in all)
       /\ (inputs.strategy_type # "Any") <=> (EvalMiddle \in all)

C6_Witness ==
  /\ agent # <<>>
  /\ inputs.strategy_type = "Any"
  /\ inputs.premium_focus
  /\ inputs.timeframe = "6 months"
  /\ AnyPrefix \in Tokens(agent[1].instructions[StrategySlot])

\* ------------------------------------------------------------------------
\* C7: for a specific strategy the strategy entry names the selected
\* strategy, by its display name, both as the strategy to evaluate and as
\* the preferred strategy an alternative is justified against, and cites
\* the selected timeframe as the duration; no other selectable strategy or
\* timeframe is interpolated into the entry.
\* ------------------------------------------------------------------------
C7_NamesSelectedStrategy ==
  (agent # <<>> /\ inputs.strategy_type # "Any") =>
    LET e == agent[1].instructions[StrategySlot]
        k == IF inputs.premium_focus THEN 1 ELSE 0
    IN /\ Len(e) = k + 7
       /\ e[k + 1] = EvalPrefix
       /\ e[k + 2] = inputs.strategy_type
       /\ e[k + 3] = EvalMiddle
       /\ e[k + 4] = inputs.strategy_type
       /\ e[k + 5] = EvalSuffix
       /\ e[k + 6] = inputs.timeframe
       /\ Tokens(e) \cap Strategies = {inputs.strategy_type}
       /\ Tokens(e) \cap Timeframes = {inputs.timeframe}

C7_Witness ==
  /\ agent # <<>>
  /\ inputs.strategy_type = "Iron Condor"
  /\ inputs.timeframe = "1 month"
  /\ "Iron Condor" \in Tokens(agent[1].instructions[StrategySlot])
  /\ "1 month" \in Tokens(agent[1].instructions[StrategySlot])

\* ------------------------------------------------------------------------
\* C8: a submission moves from Idle to Composing and, the external calls
\* returning or raising, always comes back to Idle; within a submission at
\* most one agent call is issued, exactly one by the end when the agent was
\* constructed, none without a credential, a ticker and an agent, and no
\* call follows a caught exception.
\* ------------------------------------------------------------------------
C8_CallDiscipline ==
  /\ agentCalls <= 1
  /\ (Finished /\ agent # <<>>) => agentCalls = 1
  /\ agentCalls = 1 =>
       (button /\ inputs.credential # "" /\ inputs.ticker # "" /\ agent # <<>>)
  /\ (pc = "except" /\ excSite = "construct") => agentCalls = 0

C8_SubmissionLifecycle ==
  /\ []C8_CallDiscipline
  /\ [][Submit => (State = "Idle" /\ State' = "Composing")]_vars
  /\ [][exc # "" => agentCalls' <= agentCalls]_vars
  /\ (State = "Composing") ~> (State = "Idle")

C8_Witness ==
  /\ Finished
  /\ excSite = "run"
  /\ agentCalls = 1
  /\ Len(Errors) = 1

\* ------------------------------------------------------------------------
\* C9: the instruction list handed to the agent always has ten entries:
\* the five fixed entries 1-5 in order, the strategy entry, the four fixed
\* entries 6-9 in order; only the strategy entry varies with the inputs.
\* ------------------------------------------------------------------------
C9_FixedLayout ==
  agent # <<>> =>
    LET got == agent[1].instructions
    IN /\ Len(got) = 10
       /\ SubSeq(got, 1, 5) = HeadInstructions
       /\ got[6] = strategy_instruction
       /\ SubSeq(got, 7, 10) = TailInstructions
       /\ \A i \in (1..10) \ {6} :
            Tokens(got[i]) \cap (Strategies \cup Timeframes \cup Credentials
                                 \cup Tickers \cup {PremiumClause}) = {}

C9_Witness ==
  /\ agent # <<>>
  /\ inputs.premium_focus
  /\ inputs.strategy_type = "Straddle"
  /\ inputs.timeframe = "1 year"
  /\ Len(agent[1].instructions) = 10

\* ------------------------------------------------------------------------
\* C10: the event-loop initialisation is idempotent: an existing loop is
\* left in place and no loop is created; without one exactly one loop is
\* created and installed; after the initialisation, however often it has
\* run, a loop is installed, in particular whenever an agent is constructed.
\* ------------------------------------------------------------------------
C10_LoopInstalled ==
  /\ pc # "loop_init" => currentLoop # NoLoop
  /\ agent # <<>> => currentLoop # NoLoop
  /\ currentLoop <= loopsCreated

C10_EventLoopInitIdempotent ==
  /\ []C10_LoopInstalled
  /\ [][(pc = "loop_init" /\ pc' # "loop_init") =>
          IF currentLoop # NoLoop
            THEN currentLoop' = currentLoop /\ loopsCreated' = loopsCreated
            ELSE currentLoop' # NoLoop /\ loopsCreated' = loopsCreated + 1]_vars

C10_Witness ==
  /\ pc = "run"
  /\ failedBefore
  /\ loopOrigin = "script"
  /\ loopsCreated = 1
  /\ currentLoop = 1

====
